---- MODULE Spec2Model ----
(***************************************************************************)
(* Model of big_cluster.py: BigCluster builds, for a set of equal-length   *)
(* bit-string nodes, the buckets of node pairs at Hamming distance below   *)
(* min_spacing (add_relevant_edges) and merges their endpoints in a        *)
(* union-find structure, bucket after bucket (get_k_min_spacing).          *)
(*                                                                         *)
(* A node string is a sequence of one-character strings.  Python indexes   *)
(* positions and costs from 0; sequences here are indexed from 1, so the   *)
(* list possible_neighbors[d] of the source is possible_neighbors[d + 1].  *)
(***************************************************************************)
EXTENDS Integers, Sequences, FiniteSets, TLC

\* Bounds of the model.
\* Total number of characters in the node lines of the input file: of a file of
\* binary strings, and of a file that may hold other characters.
MaxDigits == 9
MaxErrDigits == 4
MaxSpacing == 3

VARIABLES
    nodes,               \* self.cluster_field.nodes: the loaded node strings
    parent,              \* union-find: node -> parent node
    component_sizes,     \* union-find: representative -> size of its component
    min_spacing,         \* self.min_spacing
    edge_endpoints,      \* self.edge_endpoints: cost -> set of <<node, neighbor>>
    edge_order,          \* insertion order of the keys of self.edge_endpoints
    visited,             \* nodes the loop of add_relevant_edges has been through
    node_str,            \* the node of the latest iteration of add_relevant_edges
    possible_neighbors,  \* what _calculate_possible_neighbors_iter returned for it
    gen_idx,             \* _yield_edges: position of its for loop in edge_order
    cost_and_endpoints,  \* get_k_min_spacing: the edge in hand, <<cost, <<u, v>>>>
    unions,              \* number of calls of cluster_field.union so far
    k,                   \* the value get_k_min_spacing returned
    pc                   \* where the program is

vars == <<nodes, parent, component_sizes, min_spacing, edge_endpoints, edge_order,
          visited, node_str, possible_neighbors, gen_idx, cost_and_endpoints,
          unions, k, pc>>

None == "None"
\* No node: node strings have at least one character.
NoNode == <<>>
ValueError == "ValueError"

BinaryDigits == {"0", "1"}
\* "x" stands for any character that is not a binary digit.
AnyChars == {"0", "1", "x"}

Range(f) == {f[i] : i \in DOMAIN f}

\* The strings of length L over the characters C.
Strings(C, L) == [1..L -> C]

\* The sets of at most n strings of S.
NodeSets(S, n) ==
    {{}} \cup UNION {{Range(f) : f \in [1..j -> S]} : j \in 1..n}

IsBinary(s) == \A i \in DOMAIN s : s[i] \in BinaryDigits

----------------------------------------------------------------------------
\* A _swap_digit whose else branch returns a digit instead of raising.
SwapDigitNoRaise(binary_digit) ==
    IF binary_digit = "1" THEN "0"
    ELSE IF binary_digit = "0" THEN "1"
    ELSE "0"

\* _swap_digit (ValueError stands for the raise of the else branch).
swap_digit(binary_digit) ==
    IF binary_digit = "1" THEN "0"
    ELSE IF binary_digit = "0" THEN "1"
    ELSE ValueError

\* Combinations that leave the last position out.
CombinationsShort(n, r) ==
    {t \in [1..r -> 1..(n - 1)] : \A i \in 1..(r - 1) : t[i] < t[i + 1]}

\* itertools.combinations(positions, r): the strictly increasing r-tuples of
\* positions 1..n.
Combinations(n, r) ==
    {t \in [1..r -> 1..n] : \A i \in 1..(r - 1) : t[i] < t[i + 1]}

\* The inner loop over swap_index_tup: swap the digits at the tuple's indices,
\* one after the other.
RECURSIVE SwapAll(_, _, _)
SwapAll(node_str_swapping, swap_index_tup, j) ==
    IF j > Len(swap_index_tup) THEN node_str_swapping
    ELSE SwapAll([node_str_swapping EXCEPT
                     ![swap_index_tup[j]] = swap_digit(node_str_swapping[swap_index_tup[j]])],
                 swap_index_tup, j + 1)

\* Some call of _swap_digit made for n raises.
SwapRaises(n, ms) ==
    \E edge_cost \in 0..(ms - 1) :
        \E t \in Combinations(Len(n), edge_cost) :
            \E j \in 1..edge_cost : swap_digit(n[t[j]]) = ValueError

\* _calculate_possible_neighbors_iter, when no swap raises.
calculate_possible_neighbors_iter(n, ms) ==
    [i \in 1..ms |->
        {SwapAll(n, t, 1) : t \in Combinations(Len(n), i - 1)}]

\* A _find_present_neighbors without the membership test.
FindPresentNeighborsUnfiltered(possible, field_nodes) == possible

\* _find_present_neighbors.
find_present_neighbors(possible, field_nodes) ==
    [i \in 1..Len(possible) |-> {s \in possible[i] : s \in field_nodes}]

----------------------------------------------------------------------------
\* The union-find structure of unionfind_bigcluster (UnionFind): parent
\* pointers and the sizes of the components, keyed by representative.

RECURSIVE Root(_, _)
Root(p, n) == IF p[n] = n THEN n ELSE Root(p, p[n])

RECURSIVE PathOf(_, _)
PathOf(p, n) == IF p[n] = n THEN {n} ELSE {n} \cup PathOf(p, p[n])

\* find(n) returns Root(parent, n) and leaves every node on the way pointing at it.
Compress(p, n) ==
    [x \in DOMAIN p |-> IF x \in PathOf(p, n) THEN Root(p, n) ELSE p[x]]

\* union(a, b): the states it can leave the structure in.  The smaller
\* component's representative goes under the larger's; on equal sizes either.
UnionOutcomes(p, sz, a, b) ==
    LET p1 == Compress(Compress(p, a), b)
        ra == Root(p1, a)
        rb == Root(p1, b)
        pairs == IF ra = rb THEN {}
                 ELSE IF sz[ra] > sz[rb] THEN {<<ra, rb>>}
                 ELSE IF sz[ra] < sz[rb] THEN {<<rb, ra>>}
                 ELSE {<<ra, rb>>, <<rb, ra>>}
    IN  IF ra = rb
        THEN {[parent |-> p1, component_sizes |-> sz]}
        ELSE {[parent |-> [p1 EXCEPT ![w[2]] = w[1]],
               component_sizes |->
                   [r \in (DOMAIN sz) \ {w[2]} |->
                       IF r = w[1] THEN sz[ra] + sz[rb] ELSE sz[r]]] : w \in pairs}

\* len(self.cluster_field.component_sizes)
ComponentCount == Cardinality(DOMAIN component_sizes)

----------------------------------------------------------------------------
\* An add-edges loop that creates a key only for a non-empty set of neighbors.
RECURSIVE AddEdgesLazyKeys(_, _, _, _)
AddEdgesLazyKeys(d, n, present_neighbors, c) ==
    IF c >= Len(present_neighbors) THEN d
    ELSE IF present_neighbors[c + 1] = {} THEN AddEdgesLazyKeys(d, n, present_neighbors, c + 1)
    ELSE
        LET created == IF c \in DOMAIN d.map
                       THEN d
                       ELSE [map |-> [x \in (DOMAIN d.map) \cup {c} |->
                                         IF x = c THEN {} ELSE d.map[x]],
                             order |-> Append(d.order, c)]
            added == [created EXCEPT
                         !.map[c] = @ \cup {<<n, s>> : s \in present_neighbors[c + 1]}]
        IN  AddEdgesLazyKeys(added, n, present_neighbors, c + 1)

\* The body of the loop "for edge_cost in range(len(present_neighbors))" of
\* add_relevant_edges, from edge_cost = c on.  d is self.edge_endpoints: its
\* mapping and the insertion order of its keys.  A key is created for every
\* edge_cost, whether the node has neighbors at that cost or not.
RECURSIVE AddEdges(_, _, _, _)
AddEdges(d, n, present_neighbors, c) ==
    IF c >= Len(present_neighbors) THEN d
    ELSE
        LET created == IF c \in DOMAIN d.map
                       THEN d
                       ELSE [map |-> [x \in (DOMAIN d.map) \cup {c} |->
                                         IF x = c THEN {} ELSE d.map[x]],
                             order |-> Append(d.order, c)]
            added == [created EXCEPT
                         !.map[c] = @ \cup {<<n, s>> : s \in present_neighbors[c + 1]}]
        IN  AddEdges(added, n, present_neighbors, c + 1)

\* A _yield_edges with "if edges" for "while edges": one edge of each bucket.
NextYieldsOncePerBucket(map, order, idx) ==
    LET live == {i \in (idx + 1)..Len(order) : map[order[i]] # {}}
    IN  IF live = {} THEN {}
        ELSE LET i == CHOOSE j \in live : \A j2 \in live : j <= j2
             IN  {<<i, e>> : e \in map[order[i]]}

\* _yield_edges: what its next yield can be, as <<position, edge>> pairs, when
\* its for loop is at position idx of the keys (0: not started); no pair when
\* it is exhausted.  "while edges" stays in a bucket until it is empty, and
\* edges.pop() takes any edge of it.
NextYields(map, order, idx) ==
    LET from == IF idx = 0 THEN 1 ELSE idx
        live == {i \in from..Len(order) : map[order[i]] # {}}
    IN  IF live = {} THEN {}
        ELSE LET i == CHOOSE j \in live : \A j2 \in live : j <= j2
             IN  {<<i, e>> : e \in map[order[i]]}

----------------------------------------------------------------------------
InitWith(C, maxdigits) ==
    /\ \E L \in 1..maxdigits : nodes \in NodeSets(Strings(C, L), maxdigits \div L)
    /\ min_spacing \in 1..MaxSpacing
    /\ parent = [n \in nodes |-> n]
    /\ component_sizes = [n \in nodes |-> 1]
    /\ edge_endpoints = <<>>
    /\ edge_order = <<>>
    /\ visited = {}
    /\ node_str = NoNode
    /\ possible_neighbors = <<>>
    /\ gen_idx = 0
    /\ cost_and_endpoints = None
    /\ unions = 0
    /\ k = None
    /\ pc = "add_relevant_edges"

\* After BigCluster.__init__: on a file of binary strings, or on a (smaller)
\* file whose lines may hold other characters.
Init ==
    \/ InitWith(BinaryDigits, MaxDigits)
    \/ InitWith(AnyChars, MaxErrDigits)

\* One iteration of "for node_str in self.cluster_field.nodes" that completes.
AddRelevantEdgesIter ==
    /\ pc = "add_relevant_edges"
    /\ \E n \in nodes \ visited :
        /\ ~SwapRaises(n, min_spacing)
        /\ LET possible == calculate_possible_neighbors_iter(n, min_spacing)
               present == find_present_neighbors(possible, nodes)
               d == AddEdges([map |-> edge_endpoints, order |-> edge_order], n, present, 0)
           IN  /\ node_str' = n
               /\ possible_neighbors' = possible
               /\ edge_endpoints' = d.map
               /\ edge_order' = d.order
               /\ visited' = visited \cup {n}
    /\ UNCHANGED <<nodes, parent, component_sizes, min_spacing, gen_idx,
                   cost_and_endpoints, unions, k, pc>>

\* An iteration in which _swap_digit raises: the ValueError leaves
\* add_relevant_edges.
AddRelevantEdgesRaise ==
    /\ pc = "add_relevant_edges"
    /\ \E n \in nodes \ visited :
        /\ SwapRaises(n, min_spacing)
        /\ node_str' = n
    /\ possible_neighbors' = <<>>
    /\ pc' = "ValueError"
    /\ UNCHANGED <<nodes, parent, component_sizes, min_spacing, edge_endpoints,
                   edge_order, visited, gen_idx, cost_and_endpoints, unions, k>>

\* The loop over the nodes is over: add_relevant_edges returns.
AddRelevantEdgesReturn ==
    /\ pc = "add_relevant_edges"
    /\ visited = nodes
    /\ pc' = "get_k"
    /\ node_str' = NoNode
    /\ possible_neighbors' = <<>>
    /\ UNCHANGED <<nodes, parent, component_sizes, min_spacing, edge_endpoints,
                   edge_order, visited, gen_idx, cost_and_endpoints, unions, k>>

\* get_k_min_spacing up to its loop: the first next(edge_generator), outside
\* any try.
GetKStart ==
    /\ pc = "get_k"
    /\ LET ys == NextYields(edge_endpoints, edge_order, gen_idx)
       IN  IF ys = {}
           THEN /\ pc' = "StopIteration"
                /\ UNCHANGED <<edge_endpoints, gen_idx, cost_and_endpoints>>
           ELSE \E y \in ys :
                /\ gen_idx' = y[1]
                /\ cost_and_endpoints' = <<edge_order[y[1]], y[2]>>
                /\ edge_endpoints' =
                       [edge_endpoints EXCEPT ![edge_order[y[1]]] = @ \ {y[2]}]
                /\ pc' = "loop"
    /\ UNCHANGED <<nodes, parent, component_sizes, min_spacing, edge_order,
                   visited, node_str, possible_neighbors, unions, k>>

\* Lines 84-85 with union called whatever the finds return.
MergeAlways(u, v) ==
    {[uf |-> o, called |-> 1] : o \in UnionOutcomes(parent, component_sizes, u, v)}

\* Lines 84-85 without the union.
MergeNever(u, v) ==
    {[uf |-> [parent |-> Compress(Compress(parent, u), v),
              component_sizes |-> component_sizes],
      called |-> 0]}

\* find(u) != find(v), and union(u, v) when they differ: the structures that
\* can result, and whether union was called.
Merge(u, v) ==
    LET p1 == Compress(Compress(parent, u), v)
    IN  IF Root(p1, u) # Root(p1, v)
        THEN {[uf |-> o, called |-> 1] : o \in UnionOutcomes(p1, component_sizes, u, v)}
        ELSE {[uf |-> [parent |-> p1, component_sizes |-> component_sizes],
               called |-> 0]}

\* One iteration of the while loop of get_k_min_spacing: the edge in hand is
\* processed, then the next one is fetched, or the count returned when
\* _yield_edges is exhausted.
GetKLoop ==
    /\ pc = "loop"
    /\ LET u == cost_and_endpoints[2][1]
           v == cost_and_endpoints[2][2]
           ys == NextYields(edge_endpoints, edge_order, gen_idx)
       IN  /\ \E m \in Merge(u, v) :
               /\ parent' = m.uf.parent
               /\ component_sizes' = m.uf.component_sizes
               /\ unions' = unions + m.called
               /\ IF ys = {}
                  THEN /\ k' = Cardinality(DOMAIN m.uf.component_sizes)
                       /\ pc' = "done"
                       /\ UNCHANGED <<edge_endpoints, gen_idx, cost_and_endpoints>>
                  ELSE /\ \E y \in ys :
                           /\ gen_idx' = y[1]
                           /\ cost_and_endpoints' = <<edge_order[y[1]], y[2]>>
                           /\ edge_endpoints' =
                                  [edge_endpoints EXCEPT ![edge_order[y[1]]] = @ \ {y[2]}]
                       /\ UNCHANGED <<k, pc>>
    /\ UNCHANGED <<nodes, min_spacing, edge_order, visited, node_str,
                   possible_neighbors>>

Next ==
    \/ AddRelevantEdgesIter
    \/ AddRelevantEdgesRaise
    \/ AddRelevantEdgesReturn
    \/ GetKStart
    \/ GetKLoop

Spec == Init /\ [][Next]_vars

----------------------------------------------------------------------------
\* What the claims speak of.

\* The Hamming distance of two strings of one length.
Hamming(u, v) == Cardinality({i \in 1..Len(u) : u[i] # v[i]})

\* The nodes joined to a node of S by a chain of pairs at distance < min_spacing.
RECURSIVE Reach(_)
Reach(S) ==
    LET T == S \cup {v \in nodes : \E u \in S : Hamming(u, v) < min_spacing}
    IN  IF T = S THEN S ELSE Reach(T)

NumComponents == Cardinality({Reach({n}) : n \in nodes})

RECURSIVE Binomial(_, _)
Binomial(n, r) ==
    IF r = 0 THEN 1
    ELSE IF n = 0 THEN 0
    ELSE Binomial(n - 1, r - 1) + Binomial(n - 1, r)

\* The sweep done in one fixed order on a partition of the nodes: the pairs at
\* distance c, for c = 0, 1, ..., each merging the blocks of its endpoints.
RECURSIVE MergeAll(_, _)
MergeAll(part, E) ==
    IF E = {} THEN part
    ELSE LET e == CHOOSE x \in E : TRUE
             bu == CHOOSE b \in part : e[1] \in b
             bv == CHOOSE b \in part : e[2] \in b
         IN  MergeAll((part \ {bu, bv}) \cup {bu \cup bv}, E \ {e})

RECURSIVE SweepFrom(_, _)
SweepFrom(part, c) ==
    IF c >= min_spacing THEN part
    ELSE SweepFrom(MergeAll(part, {e \in nodes \X nodes : Hamming(e[1], e[2]) = c}),
                   c + 1)

FixedOrderK == Cardinality(SweepFrom({{n} : n \in nodes}, 0))

HasBadNode == \E n \in nodes : ~IsBinary(n)

Running == pc \in {"add_relevant_edges", "get_k", "loop"}

----------------------------------------------------------------------------
\* C1: for every node set and min_spacing, add_relevant_edges and then
\* get_k_min_spacing end by returning k, the number of connected components of
\* the graph joining the distinct nodes at Hamming distance < min_spacing.
C1_ReturnsComponentCount ==
    (~HasBadNode /\ ~Running) => (pc = "done" /\ k = NumComponents)

\* C2: when get_k_min_spacing has returned, two nodes in different components
\* of the union-find structure are at Hamming distance >= min_spacing.
C2_SpacingAtLeastMin ==
    pc = "done" =>
        \A u \in nodes : \A v \in nodes :
            Root(parent, u) # Root(parent, v) => Hamming(u, v) >= min_spacing

C2_Witness ==
    /\ pc = "done"
    /\ unions >= 1
    /\ \E u \in nodes : \E v \in nodes : Root(parent, u) # Root(parent, v)

\* C3: the k returned does not depend on the order in which the nodes are
\* visited and the edges popped: whatever the order, it is the k of the sweep
\* done in one fixed order.
C3_OrderIndependent ==
    pc = "done" => k = FixedOrderK

C3_Witness ==
    /\ pc = "done"
    /\ Cardinality(nodes) >= 3
    /\ unions >= 2

\* C4: no bucket of edge_endpoints holds a pair of a node with itself.
C4_NoSelfPairs ==
    \A c \in DOMAIN edge_endpoints :
        \A e \in edge_endpoints[c] : e[1] # e[2]

\* C5: every pair stored under cost c has both ends in the loaded node set,
\* at Hamming distance exactly c, and c < min_spacing.
C5_BucketsSound ==
    \A c \in DOMAIN edge_endpoints :
        /\ c < min_spacing
        /\ \A e \in edge_endpoints[c] :
            /\ e[1] \in nodes
            /\ e[2] \in nodes
            /\ Hamming(e[1], e[2]) = c

C5_Witness ==
    /\ pc = "get_k"
    /\ \E c \in DOMAIN edge_endpoints : c >= 2 /\ edge_endpoints[c] # {}

\* C6: processing an edge <<u, v>> leaves u and v with one representative and
\* lowers the component count by exactly 1 if they had different ones, by 0
\* otherwise; and at every step the component count is the number of nodes
\* minus the number of unions made so far (and the number of representatives).
C6_LoopStep ==
    pc = "loop" =>
        LET u == cost_and_endpoints[2][1]
            v == cost_and_endpoints[2][2]
        IN  /\ Root(parent', u) = Root(parent', v)
            /\ ComponentCount' =
                   ComponentCount - (IF Root(parent, u) # Root(parent, v) THEN 1 ELSE 0)

C6_UnionCount ==
    /\ [](/\ ComponentCount = Cardinality(nodes) - unions
          /\ ComponentCount = Cardinality({Root(parent, n) : n \in nodes}))
    /\ [][C6_LoopStep]_vars

C6_Witness ==
    /\ pc = "loop"
    /\ unions >= 1
    /\ cost_and_endpoints[2][1] # cost_and_endpoints[2][2]
    /\ Root(parent, cost_and_endpoints[2][1]) = Root(parent, cost_and_endpoints[2][2])

\* C7 as claimed: with a node holding a character other than 0 and 1, edge
\* discovery never completes normally, whatever min_spacing >= 1.
C7_AbortsForEverySpacing ==
    HasBadNode => pc \in {"add_relevant_edges", "ValueError"}

\* C7 as amended: with such a node and min_spacing >= 2, neighbor generation
\* for that node raises ValueError and add_relevant_edges never completes
\* normally.
C7_AbortsFromSpacingTwo ==
    (HasBadNode /\ min_spacing >= 2) =>
        /\ pc \in {"add_relevant_edges", "ValueError"}
        /\ \A n \in visited : IsBinary(n)
        /\ (node_str # NoNode /\ ~IsBinary(node_str)) => pc = "ValueError"

C7_Witness ==
    /\ pc = "ValueError"
    /\ min_spacing >= 2
    /\ visited # {}
    /\ ~IsBinary(node_str)

\* C8: for every node set, the empty one included, get_k_min_spacing run
\* after add_relevant_edges ends by returning the component count.
C8_EndsByReturningCount ==
    /\ pc # "StopIteration"
    /\ pc = "done" => k = ComponentCount

\* C9: _yield_edges hands out the edges in non-decreasing order of cost.
C9_Step ==
    (pc = "loop" /\ pc' = "loop") => cost_and_endpoints'[1] >= cost_and_endpoints[1]

C9_CostOrder == [][C9_Step]_vars

C9_Witness ==
    /\ pc = "loop"
    /\ cost_and_endpoints[1] = 2
    /\ \E u \in nodes : \E v \in nodes : Hamming(u, v) = 1

\* C10: for a binary node of length L, the set at index d of what
\* _calculate_possible_neighbors_iter returns is the set of all binary strings
\* of length L at Hamming distance d from it, of size C(L, d).
C10_ExactSpheres ==
    (pc = "add_relevant_edges" /\ node_str # NoNode /\ IsBinary(node_str)) =>
        /\ Len(possible_neighbors) = min_spacing
        /\ \A d \in 0..(min_spacing - 1) :
            /\ possible_neighbors[d + 1] =
                   {t \in Strings(BinaryDigits, Len(node_str)) : Hamming(node_str, t) = d}
            /\ Cardinality(possible_neighbors[d + 1]) = Binomial(Len(node_str), d)

C10_Witness ==
    /\ pc = "add_relevant_edges"
    /\ node_str # NoNode
    /\ Len(node_str) = 3
    /\ Len(possible_neighbors) = 3

====
